---- MODULE Spec2Model ----
(***************************************************************************)
(* Model of generate_sql.py: the field normalizers (clean_phone,            *)
(* parse_accompanying_count, parse_area_of_interest, parse_date,            *)
(* escape_sql_string, validate_email) and the batch run that reads the      *)
(* first 100 rows, renders one INSERT statement per row and writes them.    *)
(*                                                                          *)
(* A Python str is a sequence of one-character strings.  None and a raised  *)
(* exception are one-element sequences holding a longer token, so they are  *)
(* values of the same kind as a str and differ from every str.              *)
(***************************************************************************)
EXTENDS Integers, Sequences, FiniteSets, TLC

VARIABLES
    csv_rows,        \* the data rows csv.DictReader yields from the input file
    fieldnames,      \* the header of the input file: the keys of every row
    rows,            \* rows = list(reader)[:100]
    i,               \* position of the for loop in rows (1-based, next row)
    sql_statements,  \* the list the loop appends to
    output,          \* content of the output file, NoFile until it is opened
    writes,          \* number of f.write calls made on the output file
    pc,              \* "read", "loop", "done", "aborted"; "call"/"ret" for a lone function
    arg,             \* argument of a normalizer applied on its own
    ret              \* its return value

vars == <<csv_rows, fieldnames, rows, i, sql_statements, output, writes, pc, arg, ret>>

----------------------------------------------------------------------------
(* Python values and str helpers *)

None == <<"None">>
KeyError == <<"KeyError">>
AttributeError == <<"AttributeError">>
NoFile == <<"NoFile">>

IsException(v) == v = KeyError \/ v = AttributeError

\* bool(v) of a str or None
Truthy(v) == v # None /\ v # <<>>

Digits == {"0", "1", "2", "3", "4", "5", "6", "7", "8", "9"}

LowerLetters ==
    {"a", "b", "c", "d", "e", "f", "g", "h", "i", "j", "k", "l", "m",
     "n", "o", "p", "q", "r", "s", "t", "u", "v", "w", "x", "y", "z"}

UpperLetters ==
    {"A", "B", "C", "D", "E", "F", "G", "H", "I", "J", "K", "L", "M",
     "N", "O", "P", "Q", "R", "S", "T", "U", "V", "W", "X", "Y", "Z"}

Letters == LowerLetters \cup UpperLetters

\* the characters str.strip() removes and \s matches
Whitespace == {" ", "\t", "\n", "\r"}

\* the characters \w matches
WordChars == Letters \cup Digits \cup {"_"}

LowerOf ==
    [c \in UpperLetters |->
        CASE c = "A" -> "a" [] c = "B" -> "b" [] c = "C" -> "c" [] c = "D" -> "d"
          [] c = "E" -> "e" [] c = "F" -> "f" [] c = "G" -> "g" [] c = "H" -> "h"
          [] c = "I" -> "i" [] c = "J" -> "j" [] c = "K" -> "k" [] c = "L" -> "l"
          [] c = "M" -> "m" [] c = "N" -> "n" [] c = "O" -> "o" [] c = "P" -> "p"
          [] c = "Q" -> "q" [] c = "R" -> "r" [] c = "S" -> "s" [] c = "T" -> "t"
          [] c = "U" -> "u" [] c = "V" -> "v" [] c = "W" -> "w" [] c = "X" -> "x"
          [] c = "Y" -> "y" [] c = "Z" -> "z"]

\* s.lower()
Lower(s) == [k \in 1..Len(s) |-> IF s[k] \in UpperLetters THEN LowerOf[s[k]] ELSE s[k]]

SetMin(S) == CHOOSE x \in S : \A y \in S : x <= y
SetMax(S) == CHOOSE x \in S : \A y \in S : x >= y

\* s.strip(); on None the attribute lookup raises
Strip(s) ==
    IF s = None THEN AttributeError
    ELSE LET keep == {k \in 1..Len(s) : s[k] \notin Whitespace}
         IN  IF keep = {} THEN <<>> ELSE SubSeq(s, SetMin(keep), SetMax(keep))

RECURSIVE Flatten(_)
Flatten(ss) == IF ss = <<>> THEN <<>> ELSE Head(ss) \o Flatten(Tail(ss))

\* s.replace(c, r) for a one-character c
Replace(s, c, r) == Flatten([k \in 1..Len(s) |-> IF s[k] = c THEN r ELSE <<s[k]>>])

\* s.split(c) for a one-character c: the pieces between the separators, empty ones kept
RECURSIVE Split(_, _)
Split(s, c) ==
    LET at == {k \in 1..Len(s) : s[k] = c}
    IN  IF at = {} THEN <<s>>
        ELSE LET p == SetMin(at)
             IN  <<SubSeq(s, 1, p - 1)>> \o Split(SubSeq(s, p + 1, Len(s)), c)

\* sep.join(ss)
RECURSIVE Join(_, _)
Join(ss, sep) ==
    IF ss = <<>> THEN <<>>
    ELSE IF Len(ss) = 1 THEN ss[1]
    ELSE ss[1] \o sep \o Join(Tail(ss), sep)

\* str(n) of a non-negative int
RECURSIVE StrOfNat(_)
StrOfNat(n) ==
    LET d == <<"0", "1", "2", "3", "4", "5", "6", "7", "8", "9">>
    IN  IF n < 10 THEN <<d[n + 1]>> ELSE StrOfNat(n \div 10) \o <<d[(n % 10) + 1]>>

\* s.zfill(w)
RECURSIVE ZFill(_, _)
ZFill(s, w) == IF Len(s) >= w THEN s ELSE ZFill(<<"0">> \o s, w)

----------------------------------------------------------------------------
(* clean_phone *)

PhoneDigits == 10

\* re.sub(r'\D', '', s)
RemoveNonDigits(s) == SelectSeq(s, LAMBDA c : c \in Digits)

\* clean_phone keeping the first ten digits instead of the last ten
clean_phone_first_ten(phone_str) ==
    IF ~Truthy(phone_str) THEN None
    ELSE LET all == RemoveNonDigits(phone_str)
             digits == IF Len(all) > PhoneDigits THEN SubSeq(all, 1, PhoneDigits) ELSE all
         IN  IF Len(digits) < PhoneDigits THEN None ELSE digits

clean_phone(phone_str) ==
    IF ~Truthy(phone_str) THEN None
    ELSE LET all == RemoveNonDigits(phone_str)
             digits == IF Len(all) > PhoneDigits
                       THEN SubSeq(all, Len(all) - PhoneDigits + 1, Len(all))
                       ELSE all
         IN  IF Len(digits) < PhoneDigits THEN None ELSE digits

----------------------------------------------------------------------------
(* parse_accompanying_count *)

\* the list of line 29
nobody_phrases ==
    {<<"n", "o", " ", "o", "n", "e">>,
     <<"n", "o", "n", "e">>,
     <<"0">>,
     <<"a", "l", "o", "n", "e">>,
     <<"-">>,
     <<".">>}

\* the set of lines 43-45
role_words ==
    {<<"f", "a", "t", "h", "e", "r">>,
     <<"m", "o", "t", "h", "e", "r">>,
     <<"s", "i", "s", "t", "e", "r">>,
     <<"b", "r", "o", "t", "h", "e", "r">>,
     <<"f", "r", "i", "e", "n", "d">>,
     <<"c", "o", "u", "s", "i", "n">>,
     <<"e", "l", "d", "e", "r", " ", "s", "i", "s", "t", "e", "r">>,
     <<"d", "a", "d">>,
     <<"m", "o", "m">>,
     <<"h", "u", "s", "b", "a", "n", "d">>,
     <<"w", "i", "f", "e">>,
     <<"c", "l", "a", "s", "s", "m", "a", "t", "e">>,
     <<"g", "r", "a", "n", "d", "f", "a", "t", "h", "e", "r">>,
     <<"g", "r", "a", "n", "d", "m", "o", "t", "h", "e", "r">>}

\* length of the longest run of characters of class C that starts at s[p]
RECURSIVE RunLen(_, _, _)
RunLen(s, p, C) == IF p <= Len(s) /\ s[p] \in C THEN 1 + RunLen(s, p + 1, C) ELSE 0

\* re.sub(r'\([^)]*\)', '', s): from each "(" up to the next ")", when there is one
RECURSIVE RemoveParens(_)
RemoveParens(s) ==
    IF s = <<>> THEN <<>>
    ELSE LET close == {k \in 2..Len(s) : s[k] = ")"}
         IN  IF Head(s) = "(" /\ close # {}
             THEN RemoveParens(SubSeq(s, SetMin(close) + 1, Len(s)))
             ELSE <<Head(s)>> \o RemoveParens(Tail(s))

\* re.sub(r'[,;&\n]+', sep, s): every run of delimiter characters becomes sep
RECURSIVE SubDelimiters(_, _)
SubDelimiters(s, sep) ==
    IF s = <<>> THEN <<>>
    ELSE LET n == RunLen(s, 1, {",", ";", "&", "\n"})
         IN  IF n > 0
             THEN <<sep>> \o SubDelimiters(SubSeq(s, n + 1, Len(s)), sep)
             ELSE <<Head(s)>> \o SubDelimiters(Tail(s), sep)

\* re.sub(r'\s+' + word + r'\s+', sep, s): leftmost matches, not overlapping
RECURSIVE SubSpaced(_, _, _)
SubSpaced(s, word, sep) ==
    IF s = <<>> THEN <<>>
    ELSE LET w1 == RunLen(s, 1, Whitespace)
             w2 == RunLen(s, w1 + Len(word) + 1, Whitespace)
             hit == /\ w1 > 0
                    /\ w1 + Len(word) <= Len(s)
                    /\ SubSeq(s, w1 + 1, w1 + Len(word)) = word
                    /\ w2 > 0
         IN  IF hit
             THEN <<sep>> \o SubSpaced(SubSeq(s, w1 + Len(word) + w2 + 1, Len(s)), word, sep)
             ELSE <<Head(s)>> \o SubSpaced(Tail(s), word, sep)

\* lines 33-38: the text with parenthesized content removed and every delimiter
\* replaced by sep
MarkDelimiters(text, sep) ==
    SubSpaced(SubSpaced(SubDelimiters(RemoveParens(text), sep), <<"a", "n", "d">>, sep),
              <<"-">>, sep)

\* line 40: [p.strip() for p in text.split(sep) if p.strip()]
StrippedParts(text, sep) ==
    LET pieces == Split(text, sep)
        stripped == [k \in 1..Len(pieces) |-> Strip(pieces[k])]
    IN  SelectSeq(stripped, LAMBDA p : p # <<>>)

\* lines 47-54
CountPeople(parts) == Cardinality({k \in 1..Len(parts) : Lower(parts[k]) \notin role_words})

parse_accompanying_count(companion_str) ==
    IF ~Truthy(companion_str) \/ ~Truthy(Strip(companion_str)) THEN <<"0">>
    ELSE LET text == Lower(Strip(companion_str))
         IN  IF text \in nobody_phrases THEN <<"0">>
             ELSE StrOfNat(CountPeople(StrippedParts(MarkDelimiters(text, "|"), "|")))

----------------------------------------------------------------------------
(* parse_area_of_interest *)

\* parse_area_of_interest without the backslash before an embedded double quote
parse_area_of_interest_unescaped(interest_str) ==
    IF ~Truthy(interest_str) \/ ~Truthy(Strip(interest_str)) THEN <<"[", "]">>
    ELSE LET interests == StrippedParts(interest_str, ",")
             escaped == [k \in 1..Len(interests) |-> <<"\"">> \o interests[k] \o <<"\"">>]
         IN  <<"[">> \o Join(escaped, <<",">>) \o <<"]">>

parse_area_of_interest(interest_str) ==
    IF ~Truthy(interest_str) \/ ~Truthy(Strip(interest_str)) THEN <<"[", "]">>
    ELSE LET interests == StrippedParts(interest_str, ",")
             escaped == [k \in 1..Len(interests) |->
                            <<"\"">> \o Replace(interests[k], "\"", <<"\\", "\"">>) \o <<"\"">>]
         IN  <<"[">> \o Join(escaped, <<",">>) \o <<"]">>

----------------------------------------------------------------------------
(* parse_date *)

\* the dict of lines 84-88: month name -> two-digit number
months ==
    [name \in {<<"j", "a", "n", "u", "a", "r", "y">>,
               <<"f", "e", "b", "r", "u", "a", "r", "y">>,
               <<"m", "a", "r", "c", "h">>,
               <<"a", "p", "r", "i", "l">>,
               <<"m", "a", "y">>,
               <<"j", "u", "n", "e">>,
               <<"j", "u", "l", "y">>,
               <<"a", "u", "g", "u", "s", "t">>,
               <<"s", "e", "p", "t", "e", "m", "b", "e", "r">>,
               <<"o", "c", "t", "o", "b", "e", "r">>,
               <<"n", "o", "v", "e", "m", "b", "e", "r">>,
               <<"d", "e", "c", "e", "m", "b", "e", "r">>} |->
        CASE name = <<"j", "a", "n", "u", "a", "r", "y">> -> <<"0", "1">>
          [] name = <<"f", "e", "b", "r", "u", "a", "r", "y">> -> <<"0", "2">>
          [] name = <<"m", "a", "r", "c", "h">> -> <<"0", "3">>
          [] name = <<"a", "p", "r", "i", "l">> -> <<"0", "4">>
          [] name = <<"m", "a", "y">> -> <<"0", "5">>
          [] name = <<"j", "u", "n", "e">> -> <<"0", "6">>
          [] name = <<"j", "u", "l", "y">> -> <<"0", "7">>
          [] name = <<"a", "u", "g", "u", "s", "t">> -> <<"0", "8">>
          [] name = <<"s", "e", "p", "t", "e", "m", "b", "e", "r">> -> <<"0", "9">>
          [] name = <<"o", "c", "t", "o", "b", "e", "r">> -> <<"1", "0">>
          [] name = <<"n", "o", "v", "e", "m", "b", "e", "r">> -> <<"1", "1">>
          [] name = <<"d", "e", "c", "e", "m", "b", "e", "r">> -> <<"1", "2">>]

NoMatch == [matched |-> FALSE]

YearDigits == 4

\* the groups of (\d+)(?:st|nd|rd|th)\s+(\w+)\s+(\d{4}) matched at position p, or NoMatch
DateMatchAt(s, p) ==
    LET d == RunLen(s, p, Digits)
        sfx == SubSeq(s, p + d, p + d + 1)
        w1 == RunLen(s, p + d + 2, Whitespace)
        m == RunLen(s, p + d + 2 + w1, WordChars)
        w2 == RunLen(s, p + d + 2 + w1 + m, Whitespace)
        y == p + d + 2 + w1 + m + w2
    IN  IF /\ d > 0
           /\ p + d + 1 <= Len(s)
           /\ sfx \in {<<"s", "t">>, <<"n", "d">>, <<"r", "d">>, <<"t", "h">>}
           /\ w1 > 0
           /\ m > 0
           /\ w2 > 0
           /\ y + YearDigits - 1 <= Len(s)
           /\ \A k \in y..(y + YearDigits - 1) : s[k] \in Digits
        THEN [matched |-> TRUE,
              day |-> SubSeq(s, p, p + d - 1),
              month_name |-> SubSeq(s, p + d + 2 + w1, p + d + 1 + w1 + m),
              year |-> SubSeq(s, y, y + YearDigits - 1)]
        ELSE NoMatch

\* re.search: the match at the leftmost position that has one
DateSearch(s) ==
    LET hits == {p \in 1..Len(s) : DateMatchAt(s, p).matched}
    IN  IF hits = {} THEN NoMatch ELSE DateMatchAt(s, SetMin(hits))

DayWidth == 2

parse_date(date_str) ==
    IF ~Truthy(date_str) THEN None
    ELSE LET match == DateSearch(date_str)
         IN  IF ~match.matched THEN None
             ELSE IF Lower(match.month_name) \notin DOMAIN months THEN None
             ELSE match.year \o <<"-">> \o months[Lower(match.month_name)] \o <<"-">>
                    \o ZFill(match.day, DayWidth)

----------------------------------------------------------------------------
(* escape_sql_string *)

\* escape_sql_string leaving single quotes as they are
escape_sql_string_identity(s) == s

escape_sql_string(s) == IF s = None THEN None ELSE Replace(s, "'", <<"'", "'">>)

----------------------------------------------------------------------------
(* validate_email *)

LocalChars == Letters \cup Digits \cup {".", "_", "%", "+", "-"}
DomainChars == Letters \cup Digits \cup {".", "-"}
TldMin == 2

\* the pattern with {1,} for the final label instead of {2,}
EmailPatternShortLabel(s) ==
    \E at \in 1..Len(s) : \E dot \in 1..Len(s) :
        /\ s[at] = "@"
        /\ at >= 2
        /\ \A k \in 1..(at - 1) : s[k] \in LocalChars
        /\ s[dot] = "."
        /\ dot >= at + 2
        /\ \A k \in (at + 1)..(dot - 1) : s[k] \in DomainChars
        /\ Len(s) - dot >= 1
        /\ \A k \in (dot + 1)..Len(s) : s[k] \in Letters

\* re.match(r'^[a-zA-Z0-9._%+-]+@[a-zA-Z0-9.-]+\.[a-zA-Z]{2,}$', s): some position of
\* an "@" and some position of a "." divide s as the pattern asks
EmailPattern(s) ==
    \E at \in 1..Len(s) : \E dot \in 1..Len(s) :
        /\ s[at] = "@"
        /\ at >= 2
        /\ \A k \in 1..(at - 1) : s[k] \in LocalChars
        /\ s[dot] = "."
        /\ dot >= at + 2
        /\ \A k \in (at + 1)..(dot - 1) : s[k] \in DomainChars
        /\ Len(s) - dot >= TldMin
        /\ \A k \in (dot + 1)..Len(s) : s[k] \in Letters

validate_email(email) ==
    IF ~Truthy(email) \/ ~Truthy(Strip(email)) THEN None
    ELSE LET e == Lower(Strip(email))
         IN  IF EmailPattern(e) THEN e ELSE None

----------------------------------------------------------------------------
(* the run: lines 113-153 *)

RowLimit == 100

ConsumedFields == {"Name", "EmailID", "Mobile", "Column E", "Visit Date", "Interest"}

\* generate_uuid(): the token of the k-th call, unlike that of every other call
generate_uuid(k) == <<"uuid4-">> \o StrOfNat(k)

\* row[key] of a dict
Get(row, key) == IF key \in DOMAIN row THEN row[key] ELSE KeyError

\* line 126 without the guard: escape_sql_string(row['Name'].strip())
NameLiteralUnguarded(v) ==
    IF IsException(Strip(v)) THEN Strip(v) ELSE escape_sql_string(Strip(v))

\* line 126: escape_sql_string(row['Name'].strip() if row['Name'] else '')
NameLiteral(v) == escape_sql_string(IF Truthy(v) THEN Strip(v) ELSE <<>>)

\* an absent value rendered as the empty literal instead of null
OptionalLiteralEmpty(x) == IF Truthy(x) THEN <<"'">> \o x \o <<"'">> ELSE <<"'", "'">>

\* lines 128, 131, 137, 138: f"'{x}'" if x else 'null'
OptionalLiteral(x) == IF Truthy(x) THEN <<"'">> \o x \o <<"'">> ELSE <<"n", "u", "l", "l">>

\* lines 122-140: the replacement fields of the statement of one row, or the
\* exception the row raises
RowFields(row, visitor_id) ==
    LET got == [key \in ConsumedFields |-> Get(row, key)]
        name == NameLiteral(got["Name"])
        date_from == parse_date(got["Visit Date"])
        date_to == date_from
    IN  IF \E key \in ConsumedFields : IsException(got[key]) THEN [raised |-> KeyError]
        ELSE IF IsException(name) THEN [raised |-> name]
        ELSE [raised |-> None,
              visitor_id |-> visitor_id,
              name |-> name,
              email_str |-> OptionalLiteral(validate_email(got["EmailID"])),
              phone_str |-> OptionalLiteral(clean_phone(got["Mobile"])),
              accompanying_count |-> parse_accompanying_count(got["Column E"]),
              date_from_str |-> OptionalLiteral(date_from),
              date_to_str |-> OptionalLiteral(date_to),
              area_of_interest |->
                  escape_sql_string(parse_area_of_interest(got["Interest"]))]

\* line 143: the f-string; its literal text is kept as whole tokens
Sql(st) ==
    <<"INSERT INTO \"public\".\"visitors\" (\"id\",\"name\",\"email\",\"phone\",\"register_number\",\"event_id\",\"event_name\",\"visitor_category\",\"qr_color\",\"qr_code\",\"purpose\",\"area_of_interest\",\"photo_url\",\"accompanying_count\",\"date_of_visit_from\",\"date_of_visit_to\",\"status\",\"has_arrived\",\"arrived_at\",\"checked_in_by\",\"created_at\",\"updated_at\") VALUES ('">>
        \o st.visitor_id
        \o <<"','">>
        \o st.name
        \o <<"',">>
        \o st.email_str
        \o <<",">>
        \o st.phone_str
        \o <<",null,'65fe748f-4b3b-4eab-8b3f-b8215b2a6b5c','OPEN DAY 1','student','blue',null,'','">>
        \o st.area_of_interest
        \o <<"',null,'">>
        \o st.accompanying_count
        \o <<"',">>
        \o st.date_from_str
        \o <<",">>
        \o st.date_to_str
        \o <<",'approved','false',null,null,'2025-11-26 00:00:00+00','2025-11-26 00:00:00+00');">>

\* list(reader) without the slice
FirstRowsUnsliced(all) == all

\* line 119: list(reader)[:100]
FirstRows(all) == SubSeq(all, 1, IF Len(all) < RowLimit THEN Len(all) ELSE RowLimit)

\* lines 117-119
ReadRows ==
    /\ pc = "read"
    /\ rows' = FirstRows(csv_rows)
    /\ i' = 1
    /\ pc' = "loop"
    /\ UNCHANGED <<csv_rows, fieldnames, sql_statements, output, writes, arg, ret>>

\* the loop body writing the statements so far to the output file on every iteration
ProcessRowFlushing ==
    /\ pc = "loop"
    /\ i <= Len(rows)
    /\ LET st == RowFields(rows[i], generate_uuid(i))
       IN  IF st.raised # None
           THEN /\ pc' = "aborted"
                /\ UNCHANGED <<i, sql_statements, output, writes>>
           ELSE /\ sql_statements' = Append(sql_statements, st)
                /\ i' = i + 1
                /\ pc' = pc
                /\ output' = Join([k \in 1..Len(sql_statements') |-> Sql(sql_statements'[k])],
                                  <<"\n">>)
                /\ writes' = writes + 1
    /\ UNCHANGED <<csv_rows, fieldnames, rows, arg, ret>>

\* lines 121-145: one iteration of the loop; an exception ends the program
ProcessRow ==
    /\ pc = "loop"
    /\ i <= Len(rows)
    /\ LET st == RowFields(rows[i], generate_uuid(i))
       IN  IF st.raised # None
           THEN /\ pc' = "aborted"
                /\ UNCHANGED <<i, sql_statements>>
           ELSE /\ sql_statements' = Append(sql_statements, st)
                /\ i' = i + 1
                /\ pc' = pc
    /\ UNCHANGED <<csv_rows, fieldnames, rows, output, writes, arg, ret>>

\* lines 148-150, after the loop has ended
WriteOutput ==
    /\ pc = "loop"
    /\ i > Len(rows)
    /\ output' = Join([k \in 1..Len(sql_statements) |-> Sql(sql_statements[k])], <<"\n">>)
    /\ writes' = writes + 1
    /\ pc' = "done"
    /\ UNCHANGED <<csv_rows, fieldnames, rows, i, sql_statements, arg, ret>>

Next == ReadRows \/ ProcessRow \/ WriteOutput

----------------------------------------------------------------------------
(* inputs of the run *)

\* a row of csv.DictReader: every field is a str, or None when the line is short
Row(name, email, mobile, companions, visit_date, interest) ==
    [key \in ConsumedFields |->
        CASE key = "Name" -> name
          [] key = "EmailID" -> email
          [] key = "Mobile" -> mobile
          [] key = "Column E" -> companions
          [] key = "Visit Date" -> visit_date
          [] key = "Interest" -> interest]

\* the row as DictReader builds it under a header that holds only these fields
Under(fields, row) == [key \in fields |-> row[key]]

\* headers: every consumed field present, or one of them missing
Schemas == {ConsumedFields, ConsumedFields \ {"Name"}, ConsumedFields \ {"Interest"}}

MaxRows == 102

SampleRows ==
    <<Row(<<"A", "n", "n">>,
        <<"A", ".", "B", "@", "E", "x", "a", "m", "p", "l", "e", ".", "c", "o", "m">>,
        <<"+", "1", " ", "(", "5", "5", "5", ")", " ", "1", "2", "3", "-", "4", "5", "6", "7">>,
        <<"J", "o", "h", "n", ",", " ", "M", "a", "r", "y">>,
        <<"S", "u", "n", "d", "a", "y", " ", "3", "0", "t", "h", " ", "N", "o", "v", "e", "m", "b", "e", "r", " ", "2", "0", "2", "5">>,
        <<"T", "e", "c", "h", ",", " ", "A", "r", "t">>),
      Row(<<"O", "'", "B", "r", "i", "e", "n">>,
        <<"n", "o", "t", "-", "a", "n", "-", "e", "m", "a", "i", "l">>,
        <<"1", "2", "3", "4", "5">>,
        <<"a", "l", "o", "n", "e">>,
        <<"s", "o", "o", "n">>,
        <<"i", "t", "'", "s">>),
      Row(None,
        None,
        None,
        None,
        None,
        None)>>

\* files of 0..MaxRows data rows, the rows cycling through SampleRows from some offset
LongInputs(fields) ==
    {[k \in 1..n |-> Under(fields, SampleRows[((k + offset) % Len(SampleRows)) + 1])] :
        n \in 0..MaxRows, offset \in 0..(Len(SampleRows) - 1)}

NameValues ==
    {None,
     <<>>,
     <<" ", "A", "n", "n", " ">>,
     <<"O", "'", "B", "r", "i", "e", "n">>,
     <<"'", "'", "x", "'">>}

EmailValues ==
    {None,
     <<"A", ".", "B", "@", "E", "x", "a", "m", "p", "l", "e", ".", "c", "o", "m">>,
     <<"n", "o", "t", "-", "a", "n", "-", "e", "m", "a", "i", "l">>,
     <<"o", "'", "x", "@", "y", ".", "c", "o", "m">>}

MobileValues ==
    {None,
     <<"+", "1", " ", "(", "5", "5", "5", ")", " ", "1", "2", "3", "-", "4", "5", "6", "7">>,
     <<"'", "1", "2", "3", "4", "5", "'">>}

CompanionValues ==
    {None,
     <<"F", "a", "t", "h", "e", "r", " ", "a", "n", "d", " ", "J", "o", "h", "n">>,
     <<"O", "'", "N", "e", "i", "l", ",", " ", "x">>}

DateValues ==
    {None,
     <<"S", "u", "n", "d", "a", "y", " ", "3", "0", "t", "h", " ", "N", "o", "v", "e", "m", "b", "e", "r", " ", "2", "0", "2", "5">>,
     <<"s", "o", "o", "n">>,
     <<"1", "s", "t", " ", "M", "a", "y", " ", "2", "0", "2", "5", "'">>}

InterestValues ==
    {None,
     <<"i", "t", "'", "s", ",", " ", "A", "r", "t">>,
     <<"H", "e", " ", "s", "a", "i", "d", " ", "\"", "h", "i", "\"">>}

\* files of two data rows: any combination of the field values above, then a plain row
ShortInputs(fields) ==
    {<<Under(fields, Row(n, e, m, c, d, t)), Under(fields, SampleRows[1])>> :
        n \in NameValues, e \in EmailValues, m \in MobileValues,
        c \in CompanionValues, d \in DateValues, t \in InterestValues}

\* the state when the program starts, the input file having the header and the
\* data rows of one of files
Start(files) ==
    /\ \E file \in files : fieldnames = file.header /\ csv_rows = file.data
    /\ rows = <<>>
    /\ i = 0
    /\ sql_statements = <<>>
    /\ output = NoFile
    /\ writes = 0
    /\ pc = "read"
    /\ arg = None
    /\ ret = None

Init == Start(UNION {{[header |-> h, data |-> d] : d \in LongInputs(h)} : h \in Schemas})

Spec == Init /\ [][Next]_vars

InitRow == Start(UNION {{[header |-> h, data |-> d] : d \in ShortInputs(h)} : h \in Schemas})

SpecRow == InitRow /\ [][Next]_vars

----------------------------------------------------------------------------
(* a normalizer applied on its own to one argument *)

\* the texts made of at most n pieces of pool, one after the other
Texts(pool, n) == UNION {{Flatten(c) : c \in [1..k -> pool]} : k \in 0..n}

MaxPhonePieces == 4
PhonePieces ==
    {<<"+", "1">>,
     <<" ", "(", "5", "5", "5", ")", " ">>,
     <<"1", "2", "3", "-", "4", "5", "6", "7">>,
     <<"1", "2", "3", "4", "5">>,
     <<"9", "8">>,
     <<"x">>}

MaxCompanionPieces == 4
CompanionPieces ==
    {<<"F", "a", "t", "h", "e", "r">>,
     <<"M", "o", "t", "h", "e", "r">>,
     <<"J", "o", "h", "n">>,
     <<"M", "a", "r", "y">>,
     <<",", " ">>,
     <<" ", "a", "n", "d", " ">>,
     <<" ", "-", " ">>,
     <<"|">>,
     <<"(">>,
     <<")">>,
     <<" ">>,
     <<"a", "l", "o", "n", "e">>}

MaxInterestPieces == 4
InterestPieces ==
    {<<"T", "e", "c", "h">>,
     <<"A", "r", "t">>,
     <<",", " ">>,
     <<",">>,
     <<" ">>,
     <<"\"">>,
     <<"H", "e", " ", "s", "a", "i", "d", " ">>,
     <<"h", "i">>}

MaxDatePieces == 4
DatePieces ==
    {<<"S", "u", "n", "d", "a", "y", " ">>,
     <<"3", "0", "t", "h">>,
     <<"1", "s", "t">>,
     <<"1", "0", "0", "t", "h">>,
     <<" ", "N", "o", "v", "e", "m", "b", "e", "r", " ">>,
     <<" ", "M", "A", "Y", " ">>,
     <<" ", "F", "o", "o", " ">>,
     <<"2", "0", "2", "5">>,
     <<"5">>,
     <<" ">>}

MaxEmailPieces == 4
EmailPieces ==
    {<<"A", ".", "B">>,
     <<"@">>,
     <<"E", "x", "a", "m", "p", "l", "e">>,
     <<".", "c", "o", "m">>,
     <<".", "c">>,
     <<" ">>,
     <<"_">>,
     <<"1">>}

\* the state before the call f(arg), arg being one of Args
BeforeCall(Args) ==
    /\ arg \in Args
    /\ ret = None
    /\ pc = "call"
    /\ fieldnames = ConsumedFields
    /\ csv_rows = <<>>
    /\ rows = <<>>
    /\ i = 0
    /\ sql_statements = <<>>
    /\ output = NoFile
    /\ writes = 0

InitPhone == BeforeCall(Texts(PhonePieces, MaxPhonePieces) \cup {None})

\* the call clean_phone(arg) and its return
CallCleanPhone ==
    /\ pc = "call"
    /\ ret' = clean_phone(arg)
    /\ pc' = "ret"
    /\ UNCHANGED <<csv_rows, fieldnames, rows, i, sql_statements, output, writes, arg>>

SpecPhone == InitPhone /\ [][CallCleanPhone]_vars

InitCompanion == BeforeCall(Texts(CompanionPieces, MaxCompanionPieces) \cup {None})

\* the call parse_accompanying_count(arg) and its return
CallParseAccompanyingCount ==
    /\ pc = "call"
    /\ ret' = parse_accompanying_count(arg)
    /\ pc' = "ret"
    /\ UNCHANGED <<csv_rows, fieldnames, rows, i, sql_statements, output, writes, arg>>

SpecCompanion == InitCompanion /\ [][CallParseAccompanyingCount]_vars

InitInterest == BeforeCall(Texts(InterestPieces, MaxInterestPieces) \cup {None})

\* the call parse_area_of_interest(arg) and its return
CallParseAreaOfInterest ==
    /\ pc = "call"
    /\ ret' = parse_area_of_interest(arg)
    /\ pc' = "ret"
    /\ UNCHANGED <<csv_rows, fieldnames, rows, i, sql_statements, output, writes, arg>>

SpecInterest == InitInterest /\ [][CallParseAreaOfInterest]_vars

InitDate == BeforeCall(Texts(DatePieces, MaxDatePieces) \cup {None})

\* the call parse_date(arg) and its return
CallParseDate ==
    /\ pc = "call"
    /\ ret' = parse_date(arg)
    /\ pc' = "ret"
    /\ UNCHANGED <<csv_rows, fieldnames, rows, i, sql_statements, output, writes, arg>>

SpecDate == InitDate /\ [][CallParseDate]_vars

InitEmail ==
    BeforeCall(Texts(EmailPieces, MaxEmailPieces)
                 \cup {None, <<"n", "o", "t", "-", "a", "n", "-", "e", "m", "a", "i", "l">>})

\* the call validate_email(arg) and its return
CallValidateEmail ==
    /\ pc = "call"
    /\ ret' = validate_email(arg)
    /\ pc' = "ret"
    /\ UNCHANGED <<csv_rows, fieldnames, rows, i, sql_statements, output, writes, arg>>

SpecEmail == InitEmail /\ [][CallValidateEmail]_vars

----------------------------------------------------------------------------
(* properties of the run *)

Null == <<"n", "u", "l", "l">>

\* C1: a run on n data rows ends with exactly min(n, 100) statements, the k-th
\* rendered from the k-th input row; while the loop runs there is one statement
\* per row processed so far, and never more than 100.
OneStatementPerRow ==
    /\ Len(sql_statements) <= 100
    /\ pc = "loop" => Len(sql_statements) = i - 1
    /\ pc = "done" =>
          /\ Len(sql_statements) = (IF Len(csv_rows) < 100 THEN Len(csv_rows) ELSE 100)
          /\ \A k \in 1..Len(sql_statements) :
                sql_statements[k] = RowFields(csv_rows[k], generate_uuid(k))

\* a finished run on more than 100 rows, the later rows having produced nothing
OneStatementPerRowWitness ==
    /\ pc = "done"
    /\ Len(csv_rows) > 100
    /\ Len(sql_statements) = 100
    /\ sql_statements[100] = RowFields(csv_rows[100], generate_uuid(100))

Broken == <<"Broken">>

\* the text an SQL reader takes from the content of a literal: '' reads as one
\* quote; Broken if a quote stands alone, which would end the literal early
RECURSIVE ReadLiteral(_)
ReadLiteral(content) ==
    IF content = <<>> THEN <<>>
    ELSE IF Head(content) # "'"
         THEN LET rest == ReadLiteral(Tail(content))
              IN  IF rest = Broken THEN Broken ELSE <<Head(content)>> \o rest
    ELSE IF Len(content) >= 2 /\ content[2] = "'"
         THEN LET rest == ReadLiteral(SubSeq(content, 3, Len(content)))
              IN  IF rest = Broken THEN Broken ELSE <<"'">> \o rest
    ELSE Broken

\* an optional field is the marker null or a quoted literal that reads back whole
OptionalEscaped(field) ==
    \/ field = Null
    \/ /\ Len(field) >= 2
       /\ field[1] = "'"
       /\ field[Len(field)] = "'"
       /\ ReadLiteral(SubSeq(field, 2, Len(field) - 1)) # Broken

\* C2: in every statement no literal holds a lone single quote: the name and the
\* area of interest read back as the text that was escaped, and the companion
\* count, email, phone and the two dates read back whole.
LiteralsEscaped ==
    \A k \in 1..Len(sql_statements) :
        LET st == sql_statements[k]
            row == rows[k]
        IN  /\ ReadLiteral(st.name) = (IF Truthy(row["Name"]) THEN Strip(row["Name"]) ELSE <<>>)
            /\ ReadLiteral(st.area_of_interest) = parse_area_of_interest(row["Interest"])
            /\ ReadLiteral(st.accompanying_count) # Broken
            /\ OptionalEscaped(st.email_str)
            /\ OptionalEscaped(st.phone_str)
            /\ OptionalEscaped(st.date_from_str)
            /\ OptionalEscaped(st.date_to_str)

\* a statement whose name and interest held single quotes in the input and whose
\* phone and date came from fields holding a single quote
LiteralsEscapedWitness ==
    /\ Len(sql_statements) >= 1
    /\ rows[1]["Name"] = <<"O", "'", "B", "r", "i", "e", "n">>
    /\ sql_statements[1].name = <<"O", "'", "'", "B", "r", "i", "e", "n">>
    /\ rows[1]["Interest"] = <<"i", "t", "'", "s", ",", " ", "A", "r", "t">>
    /\ rows[1]["Mobile"] = <<"'", "1", "2", "3", "4", "5", "'">>
    /\ rows[1]["Visit Date"] = <<"1", "s", "t", " ", "M", "a", "y", " ", "2", "0", "2", "5", "'">>
    /\ sql_statements[1].date_from_str = <<"'", "2", "0", "2", "5", "-", "0", "5", "-", "0", "1", "'">>

\* the rendering the claim asks of an optional field whose normalizer returned v
RendersOptional(field, v) ==
    /\ (field = Null) <=> (v = None)
    /\ v # None => field = <<"'">> \o v \o <<"'">>
    /\ field # <<"'", "'">>

\* C8: in every statement each of email, phone and the two dates is the unquoted
\* null exactly when its normalizer returned None, is the normalized value in
\* single quotes otherwise, and is never the empty literal ''.
OptionalFieldsRendered ==
    \A k \in 1..Len(sql_statements) :
        LET st == sql_statements[k]
            row == rows[k]
        IN  /\ RendersOptional(st.email_str, validate_email(row["EmailID"]))
            /\ RendersOptional(st.phone_str, clean_phone(row["Mobile"]))
            /\ RendersOptional(st.date_from_str, parse_date(row["Visit Date"]))
            /\ RendersOptional(st.date_to_str, parse_date(row["Visit Date"]))

\* a statement with an invalid email and a short phone next to a valid date
OptionalFieldsRenderedWitness ==
    /\ Len(sql_statements) >= 1
    /\ rows[1]["EmailID"] = <<"n", "o", "t", "-", "a", "n", "-", "e", "m", "a", "i", "l">>
    /\ rows[1]["Mobile"] = <<"'", "1", "2", "3", "4", "5", "'">>
    /\ sql_statements[1].email_str = Null
    /\ sql_statements[1].phone_str = Null
    /\ sql_statements[1].date_to_str = <<"'", "2", "0", "2", "5", "-", "1", "1", "-", "3", "0", "'">>

\* C9: when the header holds the six consumed fields the run never aborts,
\* whatever the rows hold: every processed row has appended one statement, the
\* loop goes on to the next row, and the run ends with a statement per row.
NoFieldAborts ==
    ConsumedFields \subseteq fieldnames =>
        /\ pc # "aborted"
        /\ pc = "loop" => Len(sql_statements) = i - 1
        /\ pc = "done" => Len(sql_statements) = Len(rows)

\* a finished run whose first row had no name, no date, an invalid email and a
\* short phone, and whose second row was processed after it
NoFieldAbortsWitness ==
    /\ pc = "done"
    /\ rows[1]["Name"] = None
    /\ rows[1]["EmailID"] = <<"n", "o", "t", "-", "a", "n", "-", "e", "m", "a", "i", "l">>
    /\ rows[1]["Mobile"] = <<"'", "1", "2", "3", "4", "5", "'">>
    /\ rows[1]["Visit Date"] = <<"s", "o", "o", "n">>
    /\ rows[1]["Interest"] = None
    /\ Len(sql_statements) = 2

\* C10: the output file is written once, after the last row of the prefix, and
\* then holds every statement joined by newlines; until then, and in a run that
\* aborted in the loop, no output exists.
OutputWrittenOnceAtEnd ==
    /\ writes <= 1
    /\ (output = NoFile) <=> (writes = 0)
    /\ (pc = "done") <=> (writes = 1)
    /\ pc = "aborted" => output = NoFile
    /\ output # NoFile =>
          /\ Len(sql_statements) = Len(rows)
          /\ output = Join([k \in 1..Len(sql_statements) |-> Sql(sql_statements[k])],
                           <<"\n">>)

\* a finished run of several rows
OutputWrittenOnceAtEndWitness ==
    /\ pc = "done"
    /\ Len(sql_statements) >= 2
    /\ writes = 1
    /\ output # NoFile

----------------------------------------------------------------------------
(* properties of the normalizers *)

\* the digits of a text in order, every other character dropped; none for None
RECURSIVE DigitsOf(_)
DigitsOf(s) ==
    IF s = None \/ s = <<>> THEN <<>>
    ELSE IF Head(s) \in Digits THEN <<Head(s)>> \o DigitsOf(Tail(s))
    ELSE DigitsOf(Tail(s))

\* C3: with d the digits of the input, clean_phone returns None when d has fewer
\* than 10 digits, d when it has exactly 10, and the last 10 digits of d when it
\* has more; so a result other than None is exactly 10 digits.
PhoneContract ==
    pc = "ret" =>
        LET d == DigitsOf(arg)
        IN  /\ Len(d) < 10 => ret = None
            /\ Len(d) = 10 => ret = d
            /\ Len(d) > 10 => ret = [k \in 1..10 |-> d[Len(d) - 10 + k]]
            /\ ret # None => Len(ret) = 10 /\ \A k \in 1..10 : ret[k] \in Digits

\* "+1 (555) 123-4567", eleven digits, has returned "5551234567"
PhoneContractWitness ==
    /\ pc = "ret"
    /\ arg = <<"+", "1", " ", "(", "5", "5", "5", ")", " ", "1", "2", "3", "-", "4", "5", "6", "7">>
    /\ ret = <<"5", "5", "5", "1", "2", "3", "4", "5", "6", "7">>

\* a mark that is no character of any text
Delimiter == "<delimiter>"

\* the segments the claim counts: parenthesized content removed, the text cut at
\* commas, semicolons, ampersands, newlines, the word "and" and a hyphen between
\* spaces, each piece trimmed and the empty ones dropped
ClaimSegments(text) == StrippedParts(MarkDelimiters(text, Delimiter), Delimiter)

\* C4: for text that is neither blank nor a "nobody" phrase parse_accompanying_count
\* returns the number of segments that are not exactly a role word; for blank
\* text and for a "nobody" phrase it returns "0".
CompanionContract ==
    pc = "ret" =>
        IF arg = None \/ Strip(arg) = <<>> \/ Lower(Strip(arg)) \in nobody_phrases
        THEN ret = <<"0">>
        ELSE LET segments == ClaimSegments(Lower(Strip(arg)))
             IN  ret = StrOfNat(Cardinality({k \in 1..Len(segments) :
                                                segments[k] \notin role_words}))

\* YYYY-MM-DD: four digits, a month 01..12 and two digits
IsIsoDate(r) ==
    /\ Len(r) = 10
    /\ \A k \in {1, 2, 3, 4, 9, 10} : r[k] \in Digits
    /\ r[5] = "-"
    /\ r[8] = "-"
    /\ <<r[6], r[7]>> \in {months[name] : name \in DOMAIN months}

\* C5: a result of parse_date other than None has the format YYYY-MM-DD with a
\* month 01..12 and a two-digit day; the result is None exactly when the text has
\* no day-ordinal, month word, 4-digit-year match or the matched month word is
\* not one of the twelve month names.
DateContract ==
    pc = "ret" =>
        /\ ret # None => IsIsoDate(ret)
        /\ (ret = None) <=>
              \/ ~Truthy(arg)
              \/ ~DateSearch(arg).matched
              \/ Lower(DateSearch(arg).month_name) \notin DOMAIN months

\* the one "@" of a text cuts it into a local part and a domain
HasOneAt(e) == Cardinality({k \in 1..Len(e) : e[k] = "@"}) = 1
LocalPart(e) == SubSeq(e, 1, SetMin({k \in 1..Len(e) : e[k] = "@"}) - 1)
DomainPart(e) == SubSeq(e, SetMin({k \in 1..Len(e) : e[k] = "@"}) + 1, Len(e))

\* the text after the last dot of a domain that has a dot
FinalLabel(d) == SubSeq(d, SetMax({k \in 1..Len(d) : d[k] = "."}) + 1, Len(d))

\* the address the claim describes: allowed local characters, one "@", a domain
\* of letters, digits, dots and hyphens that holds a dot and ends in a label of
\* at least two letters
ClaimAddress(e) ==
    /\ HasOneAt(e)
    /\ LocalPart(e) # <<>>
    /\ \A k \in 1..Len(LocalPart(e)) : LocalPart(e)[k] \in LocalChars
    /\ \A k \in 1..Len(DomainPart(e)) : DomainPart(e)[k] \in DomainChars
    /\ \E k \in 1..Len(DomainPart(e)) : DomainPart(e)[k] = "."
    /\ Len(FinalLabel(DomainPart(e))) >= 2
    /\ \A k \in 1..Len(FinalLabel(DomainPart(e))) : FinalLabel(DomainPart(e))[k] \in Letters

\* the input of validate_email trimmed and lowercased, empty for None
Trimmed(s) == IF s = None THEN <<>> ELSE Lower(Strip(s))

\* C6 as stated: validate_email returns None or the trimmed lowercased input, and
\* returns the latter exactly when it is an address as the claim describes.
EmailContract ==
    pc = "ret" =>
        /\ ret = None \/ ret = Trimmed(arg)
        /\ (ret # None) <=> ClaimAddress(Trimmed(arg))

\* C6 amended: validate_email returns None or the trimmed lowercased input, and
\* returns the latter exactly when it is an address as the claim describes whose
\* domain has at least one character before its last dot.
EmailContractAmended ==
    pc = "ret" =>
        /\ ret = None \/ ret = Trimmed(arg)
        /\ (ret # None) <=>
              /\ ClaimAddress(Trimmed(arg))
              /\ Len(DomainPart(Trimmed(arg))) - Len(FinalLabel(DomainPart(Trimmed(arg)))) >= 2

\* "A.B@Example.com" has returned "a.b@example.com"
EmailContractWitness ==
    /\ pc = "ret"
    /\ arg = <<"A", ".", "B", "@", "E", "x", "a", "m", "p", "l", "e", ".", "c", "o", "m">>
    /\ ret = <<"a", ".", "b", "@", "e", "x", "a", "m", "p", "l", "e", ".", "c", "o", "m">>

\* the positions of s that bound its comma-separated pieces
Cuts(s) == {0, Len(s) + 1} \cup {k \in 1..Len(s) : s[k] = ","}

\* the pieces that start after the cuts in S, in input order, each trimmed
RECURSIVE PiecesFrom(_, _)
PiecesFrom(s, S) ==
    IF S = {} THEN <<>>
    ELSE LET from == SetMin(S)
             to == SetMin({c \in Cuts(s) : c > from})
         IN  <<Strip(SubSeq(s, from + 1, to - 1))>> \o PiecesFrom(s, S \ {from})

\* an entry: the piece between double quotes, a backslash before each double
\* quote inside it
RECURSIVE Entry(_)
Quoted(body) == <<"\"">> \o body \o <<"\"">>
Entry(piece) ==
    IF piece = <<>> THEN <<>>
    ELSE (IF Head(piece) = "\"" THEN <<"\\", "\"">> ELSE <<Head(piece)>>) \o Entry(Tail(piece))

\* the entries of a list of pieces, the empty pieces left out, a comma between them
RECURSIVE Entries(_)
Entries(pieces) ==
    IF pieces = <<>> THEN <<>>
    ELSE IF Head(pieces) = <<>> THEN Entries(Tail(pieces))
    ELSE LET rest == Entries(Tail(pieces))
         IN  Quoted(Entry(Head(pieces))) \o (IF rest = <<>> THEN <<>> ELSE <<",">> \o rest)

\* C7: parse_area_of_interest returns "[" entries "]", the entries being the
\* non-empty trimmed comma-separated pieces of the input in input order, each
\* between double quotes with a backslash before every embedded double quote,
\* a comma between them; None, empty and blank input give "[]".
InterestContract ==
    pc = "ret" =>
        IF arg = None \/ Strip(arg) = <<>> THEN ret = <<"[", "]">>
        ELSE ret = <<"[">> \o Entries(PiecesFrom(arg, Cuts(arg) \ {Len(arg) + 1})) \o <<"]">>

\* "Tech, Art" has returned ["Tech","Art"]
InterestContractWitness ==
    /\ pc = "ret"
    /\ arg = <<"T", "e", "c", "h", ",", " ", "A", "r", "t">>
    /\ ret = <<"[", "\"", "T", "e", "c", "h", "\"", ",", "\"", "A", "r", "t", "\"", "]">>

====
